---------------------------- MODULE Spec2Model ----------------------------
(***************************************************************************)
(* Model of subtitles-srt-bridge: local_translate_srt.py (SRT block       *)
(* recognition, line-wise translation with retries, the batch main) and    *)
(* process_videos.py (process_directory and its helpers).                  *)
(*                                                                         *)
(* A document is a sequence of one-character strings.  Offsets into a      *)
(* document are 0-based, as in the Python source: Slice(s, a, b) is        *)
(* s[a:b].  Durations are in milliseconds (0.4 s = 400).                   *)
(***************************************************************************)
EXTENDS Integers, Sequences, FiniteSets, TLC

VARIABLES
    \* ---- translate_srt / translate_text_preserving_newlines ----
    content,         \* the document being translated
    sleep_duration,  \* the sleep_duration parameter of translate_srt
    backend,         \* which TranslatorImpl is loaded
    tpc,             \* position in translate_srt: idle, find, line, done, raised
    pos,             \* translate_srt: pos
    out,             \* translate_srt: "".join(out_parts) so far
    m,               \* the current match of SRT_BLOCK_RE (or NoMatch)
    lines,           \* translate_text_preserving_newlines: lines
    li,              \* index (1-based) of the line the for loop is at
    out_lines,       \* translate_text_preserving_newlines: out_lines
    attempt,         \* the retry loop's attempt
    log,             \* what this call did to the outside: backend calls, sleeps
    emitted,         \* the (idx, t1, t2) of each block appended to out_parts
    caller,          \* who called translate_srt: direct, main, pd
    \* ---- the file system ----
    fs,              \* path -> content or NoFile
    ctime,           \* path -> os.path.getctime
    clock,           \* the time of the next file system change
    fs0,             \* the file system when the run started
    \* ---- local_translate_srt.main ----
    args,            \* parse_args(): overwrite, sleep
    srt_files,       \* main: srt_files
    fi,              \* index (1-based) of the file the for loop is at
    done,            \* main: done
    exit_status,     \* the process's exit status, or NotExited
    mpc,             \* position in main
    console,         \* what main printed, one record per message
    runs,            \* how many times main was started
    \* ---- process_videos.process_directory ----
    force,           \* the force parameter
    videos,          \* process_directory: videos
    vi,              \* index (1-based) of the video the for loop is at
    processed_count, \* process_directory: processed_count
    english_source,  \* process_directory: english_source
    ppc              \* position in process_directory

tvars == <<content, sleep_duration, backend, tpc, pos, out, m, lines, li,
           out_lines, attempt, log, emitted, caller>>
fvars == <<fs, ctime, clock, fs0>>
mvars == <<args, srt_files, fi, done, exit_status, mpc, console, runs>>
pvars == <<force, videos, vi, processed_count, english_source, ppc>>
vars == <<tvars, fvars, mvars, pvars>>

---------------------------------------------------------------------------
(* Bounds of the model. *)

\* the largest number of chunks a document is made of
MaxBlocks == 2
\* how many times main is run on the same directories
MaxRuns == 2

(* Program constants. *)

\* range(5) of the retry loop
MaxAttempts == 5
\* 0.8 in time.sleep(0.8 * (attempt + 1)), in milliseconds
BackoffUnit == 800
\* the default of sleep_duration, 0.4 s, in milliseconds
DefaultSleep == 400

---------------------------------------------------------------------------
(* Characters and strings. *)

NL == "\n"
Digits == {"0", "1", "2", "3", "4", "5", "6", "7", "8", "9"}
\* Python's \s, restricted to the characters the documents use
Spaces == {" ", NL}

\* s[a:b] for 0 <= a, b
Slice(s, a, b) == IF a >= b THEN <<>> ELSE SubSeq(s, a + 1, IF b > Len(s) THEN Len(s) ELSE b)
\* s[i]
At(s, i) == s[i + 1]

\* the end of the run of characters of S that starts at offset i
SkipIn(s, i, S) ==
    CHOOSE j \in i..Len(s) :
        /\ \A k \in i..(j - 1) : At(s, k) \in S
        /\ (j = Len(s) \/ At(s, j) \notin S)

\* the end of the run of characters other than c that starts at offset i
SkipTo(s, i, c) ==
    CHOOSE j \in i..Len(s) :
        /\ \A k \in i..(j - 1) : At(s, k) # c
        /\ (j = Len(s) \/ At(s, j) = c)

\* str.strip() == ""
IsBlank(ln) == \A i \in 1..Len(ln) : ln[i] \in Spaces

\* text.split("\n")
RECURSIVE Split(_)
Split(text) ==
    LET e == SkipTo(text, 0, NL)
    IN  IF e = Len(text) THEN <<text>>
        ELSE <<Slice(text, 0, e)>> \o Split(Slice(text, e + 1, Len(text)))

\* "\n".join(out_lines)
RECURSIVE Join(_)
Join(ls) ==
    IF ls = <<>> THEN <<>>
    ELSE IF Len(ls) = 1 THEN ls[1]
    ELSE ls[1] \o <<NL>> \o Join(Tail(ls))

---------------------------------------------------------------------------
(* SRT_BLOCK_RE, matched the way Python's re matches it: flags m and x,    *)
(* no DOTALL, so "." stops at a newline and \Z is the end of the string.   *)

NoMatch == [ok |-> FALSE]

\* \d\d:\d\d:\d\d,\d{3} at offset i
TimestampAt(s, i) ==
    /\ i + 12 <= Len(s)
    /\ \A k \in {0, 1, 3, 4, 6, 7, 9, 10, 11} : At(s, i + k) \in Digits
    /\ At(s, i + 2) = ":"
    /\ At(s, i + 5) = ":"
    /\ At(s, i + 8) = ","

\* The offsets right after each newline of the whitespace run [e, f): where
\* "\s*\n" after the second timestamp may end.
AfterNewlines(s, e, f) == {x + 1 : x \in {y \in e..(f - 1) : At(s, y) = NL}}

\* "(.*?)(?=\n\n|\Z)" from offset p: the text runs to the next newline or
\* to the end; it matches when that is the end or a blank line follows.
TextEnd(s, p) == SkipTo(s, p, NL)
TextOk(s, p) ==
    LET q == TextEnd(s, p)
    IN  q = Len(s) \/ (q + 1 < Len(s) /\ At(s, q + 1) = NL)

\* The match of SRT_BLOCK_RE that starts at offset i, if there is one.
MatchAt(s, i) ==
    LET j == SkipIn(s, i, Digits)            \* (\d+)
        k == SkipIn(s, j, Spaces)            \* \s*\n
        a == k + 12                          \* first timestamp
        b == SkipIn(s, a, Spaces)            \* \s+
        c == b + 3                           \* -->
        d == SkipIn(s, c, Spaces)            \* \s+
        e == d + 12                          \* second timestamp
        f == SkipIn(s, e, Spaces)            \* \s*\n, greedy
        good == {p \in AfterNewlines(s, e, f) : TextOk(s, p)}
        \* the regex gives whitespace back one character at a time: the
        \* longest "\s*\n" after which the text matches wins
        p == CHOOSE x \in good : \A y \in good : y <= x
    IN  IF /\ j > i
           /\ k > j /\ At(s, k - 1) = NL
           /\ TimestampAt(s, k)
           /\ b > a /\ Slice(s, b, b + 3) = <<"-", "-", ">">>
           /\ d > c
           /\ TimestampAt(s, d)
           /\ good # {}
        THEN [ok |-> TRUE, start |-> i, end |-> TextEnd(s, p),
              idx |-> Slice(s, i, j), t1 |-> Slice(s, k, a),
              t2 |-> Slice(s, d, e), txt |-> Slice(s, p, TextEnd(s, p))]
        ELSE NoMatch
\* re.finditer's next match: the first offset from pos on where one starts
Search(s, from) ==
    LET hits == {i \in from..(Len(s) - 1) : MatchAt(s, i).ok}
    IN  IF hits = {} THEN NoMatch
        ELSE MatchAt(s, CHOOSE i \in hits : \A j \in hits : i <= j)

\* list(SRT_BLOCK_RE.finditer(s)) from offset pos on
RECURSIVE FindAll(_, _)
FindAll(s, from) ==
    LET mm == Search(s, from)
    IN  IF mm.ok THEN <<mm>> \o FindAll(s, mm.end) ELSE <<>>

\* Block with the two timestamps in each other's place
BlockTimesSwapped(idx, t1, t2, translated_txt) ==
    idx \o <<NL>> \o t2 \o <<" ", "-", "-", ">", " ">> \o t1 \o <<NL>>
        \o translated_txt \o <<NL, NL>>

\* f"{idx}\n{t1} --> {t2}\n{translated_txt}\n\n"
Block(idx, t1, t2, translated_txt) ==
    idx \o <<NL>> \o t1 \o <<" ", "-", "-", ">", " ">> \o t2 \o <<NL>>
        \o translated_txt \o <<NL, NL>>

---------------------------------------------------------------------------
(* The translation backends.  "identity" returns its argument; "google"    *)
(* stands for a backend that rewrites the words of a line (a -> A, b -> B) *)
(* and returns one line for one line.                                      *)

TranslateChar(c) == IF c = "a" THEN "A" ELSE IF c = "b" THEN "B" ELSE c

\* TranslatorImpl.translate(ln) when the call succeeds
Translate(be, ln) ==
    IF be = "identity" THEN ln ELSE [i \in 1..Len(ln) |-> TranslateChar(ln[i])]

---------------------------------------------------------------------------
(* The documents the model runs on: up to MaxBlocks chunks, each a block   *)
(* head followed by a body.                                                *)

TS1 == <<"0", "0", ":", "0", "0", ":", "0", "1", ",", "0", "0", "0">>
TS2 == <<"0", "0", ":", "0", "0", ":", "0", "2", ",", "0", "0", "0">>
TS3 == <<"0", "0", ":", "0", "0", ":", "0", "3", ",", "0", "0", "0">>
Arrow == <<" ", "-", "-", ">", " ">>

\* a canonical head, one with loose whitespace, one with a malformed index
Heads == {
    <<"1", NL>> \o TS1 \o Arrow \o TS2 \o <<NL>>,
    <<"2", "0", " ", NL>> \o TS2 \o <<" ", " ", "-", "-", ">", NL>> \o TS3 \o <<" ", NL>>,
    <<"x", NL>> \o TS1 \o Arrow \o TS2 \o <<NL>> }

\* one text line and a blank line; one text line at the end of input; a
\* two-line caption; blank lines before a two-line caption
Bodies == {
    <<"a", NL, NL>>,
    <<"b">>,
    <<"a", NL, "b", NL, NL>>,
    <<NL, NL, "a", NL, "b", NL, NL>> }

Chunks == {h \o b : h \in Heads, b \in Bodies}

RECURSIVE DocsOf(_)
DocsOf(n) ==
    IF n = 0 THEN {<<>>}
    ELSE LET shorter == DocsOf(n - 1)
         IN  shorter \cup {d \o c : d \in shorter, c \in Chunks}

Docs == DocsOf(MaxBlocks)

---------------------------------------------------------------------------
(* The file system. *)

\* a path holds a file with its content, or nothing
NoFile == [exists |-> FALSE, data |-> <<>>]
File(d) == [exists |-> TRUE, data |-> d]
NoPath == <<>>
NotExited == -1

---------------------------------------------------------------------------
(* translate_srt and translate_text_preserving_newlines, step by step.     *)

\* the attempt at which the except clause re-raises: "if attempt == 4"
LastAttempt == 4

CallEvent(ln, ok) == [ev |-> "call", line |-> ln, ok |-> ok]
\* time.sleep(0.8 * (attempt + 1))
BackoffEvent(n) == [ev |-> "sleep", why |-> "retry", ms |-> BackoffUnit * (n + 1)]
\* time.sleep(sleep_duration)
DelayEvent(ms) == [ev |-> "sleep", why |-> "request", ms |-> ms]

\* translate_srt(c, sleep_duration=sd) is entered
Enter(c, sd, who) ==
    /\ content' = c
    /\ sleep_duration' = sd
    /\ caller' = who
    /\ tpc' = "find"
    /\ pos' = 0
    /\ out' = <<>>
    /\ m' = NoMatch
    /\ lines' = <<>>
    /\ li' = 1
    /\ out_lines' = <<>>
    /\ attempt' = 0
    /\ log' = <<>>
    /\ emitted' = <<>>

\* no call of translate_srt is in progress
Idle ==
    /\ content = <<>>
    /\ sleep_duration = DefaultSleep
    /\ caller = "nobody"
    /\ tpc = "idle"
    /\ pos = 0
    /\ out = <<>>
    /\ m = NoMatch
    /\ lines = <<>>
    /\ li = 1
    /\ out_lines = <<>>
    /\ attempt = 0
    /\ log = <<>>
    /\ emitted = <<>>

others == <<fvars, mvars, pvars, backend>>

\* the for loop of translate_srt finds the next block and calls
\* translate_text_preserving_newlines on its text
FindBlock ==
    /\ tpc = "find"
    /\ Search(content, pos).ok
    /\ LET mm == Search(content, pos)
       IN  /\ out' = out \o Slice(content, pos, mm.start)
           /\ m' = mm
           /\ lines' = Split(mm.txt)
    /\ li' = 1
    /\ out_lines' = <<>>
    /\ attempt' = 0
    /\ tpc' = "line"
    /\ UNCHANGED <<content, sleep_duration, pos, log, emitted, caller, others>>

\* no block is left: the tail is appended and translate_srt returns
Tail_ ==
    /\ tpc = "find"
    /\ ~Search(content, pos).ok
    /\ out' = out \o Slice(content, pos, Len(content))
    /\ tpc' = "done"
    /\ UNCHANGED <<content, sleep_duration, pos, m, lines, li, out_lines,
                   attempt, log, emitted, caller, others>>

\* a blank line is kept as it is
BlankLine ==
    /\ tpc = "line"
    /\ li <= Len(lines)
    /\ IsBlank(lines[li])
    /\ out_lines' = Append(out_lines, lines[li])
    /\ li' = li + 1
    /\ UNCHANGED <<content, sleep_duration, tpc, pos, out, m, lines, attempt,
                   log, emitted, caller, others>>

\* the backend translates the line: append, break, then the request delay
CallOk ==
    /\ tpc = "line"
    /\ li <= Len(lines)
    /\ ~IsBlank(lines[li])
    /\ attempt < MaxAttempts
    /\ out_lines' = Append(out_lines, Translate(backend, lines[li]))
    /\ log' = log \o <<CallEvent(lines[li], TRUE), DelayEvent(sleep_duration)>>
    /\ li' = li + 1
    /\ attempt' = 0
    /\ UNCHANGED <<content, sleep_duration, tpc, pos, out, m, lines, emitted,
                   caller, others>>

\* the backend raises and this is not the last attempt: back off, try again
CallFail ==
    /\ tpc = "line"
    /\ li <= Len(lines)
    /\ ~IsBlank(lines[li])
    /\ attempt < MaxAttempts
    /\ attempt # LastAttempt
    /\ IF attempt + 1 < MaxAttempts
       THEN /\ log' = log \o <<CallEvent(lines[li], FALSE), BackoffEvent(attempt)>>
            /\ attempt' = attempt + 1
            /\ UNCHANGED li
       ELSE \* range(5) is used up without a break: the line is left out
            /\ log' = log \o <<CallEvent(lines[li], FALSE), BackoffEvent(attempt),
                               DelayEvent(sleep_duration)>>
            /\ attempt' = 0
            /\ li' = li + 1
    /\ UNCHANGED <<content, sleep_duration, tpc, pos, out, m, lines, out_lines,
                   emitted, caller, others>>

\* CallExhausted that tries once more instead of raising
CallExhaustedRetries ==
    /\ tpc = "line"
    /\ li <= Len(lines)
    /\ ~IsBlank(lines[li])
    /\ attempt = LastAttempt
    /\ Len(log) < 40
    /\ log' = log \o <<CallEvent(lines[li], FALSE), BackoffEvent(attempt)>>
    /\ UNCHANGED <<content, sleep_duration, tpc, pos, out, m, lines, li, out_lines,
                   attempt, emitted, caller, others>>

\* CallExhausted that waits the request delay before it raises
CallExhaustedAfterDelay ==
    /\ tpc = "line"
    /\ li <= Len(lines)
    /\ ~IsBlank(lines[li])
    /\ attempt = LastAttempt
    /\ log' = log \o <<CallEvent(lines[li], FALSE), DelayEvent(sleep_duration)>>
    /\ tpc' = "raised"
    /\ UNCHANGED <<content, sleep_duration, pos, out, m, lines, li, out_lines,
                   attempt, emitted, caller, others>>

\* the backend raises on the last attempt: the exception leaves translate_srt
CallExhausted ==
    /\ tpc = "line"
    /\ li <= Len(lines)
    /\ ~IsBlank(lines[li])
    /\ attempt < MaxAttempts
    /\ attempt = LastAttempt
    /\ log' = Append(log, CallEvent(lines[li], FALSE))
    /\ tpc' = "raised"
    /\ UNCHANGED <<content, sleep_duration, pos, out, m, lines, li, out_lines,
                   attempt, emitted, caller, others>>

\* translate_text_preserving_newlines returns; the block is appended
EmitBlock ==
    /\ tpc = "line"
    /\ li > Len(lines)
    /\ out' = out \o Block(m.idx, m.t1, m.t2, Join(out_lines))
    /\ emitted' = Append(emitted, [idx |-> m.idx, t1 |-> m.t1, t2 |-> m.t2])
    /\ pos' = m.end
    /\ tpc' = "find"
    /\ UNCHANGED <<content, sleep_duration, m, lines, li, out_lines, attempt,
                   log, caller, others>>

TranslateStep ==
    \/ FindBlock
    \/ Tail_
    \/ BlankLine
    \/ CallOk
    \/ CallFail
    \/ CallExhausted
    \/ EmitBlock

---------------------------------------------------------------------------
(* translate_srt called on one document. *)

NoFs == [p \in {} |-> NoFile]

MainIdle ==
    /\ args = [overwrite |-> FALSE, sleep |-> DefaultSleep]
    /\ srt_files = <<>>
    /\ fi = 1
    /\ done = 0
    /\ exit_status = NotExited
    /\ mpc = "idle"
    /\ console = <<>>
    /\ runs = 0

PdIdle ==
    /\ force = FALSE
    /\ videos = <<>>
    /\ vi = 1
    /\ processed_count = 0
    /\ english_source = NoPath
    /\ ppc = "idle"

SleepValues == {DefaultSleep, 1000}
\* the backend and the sleep_duration translate_srt is called with
Setups == {<<"identity", DefaultSleep>>, <<"google", 1000>>}

InitSrt ==
    /\ content \in Docs
    /\ \E s \in Setups : backend = s[1] /\ sleep_duration = s[2]
    /\ caller = "direct"
    /\ tpc = "find"
    /\ pos = 0
    /\ out = <<>>
    /\ m = NoMatch
    /\ lines = <<>>
    /\ li = 1
    /\ out_lines = <<>>
    /\ attempt = 0
    /\ log = <<>>
    /\ emitted = <<>>
    /\ fs = NoFs /\ ctime = NoFs /\ clock = 0 /\ fs0 = NoFs
    /\ MainIdle
    /\ PdIdle

NextSrt == TranslateStep

SpecSrt == InitSrt /\ [][NextSrt]_vars
---------------------------------------------------------------------------
(* local_translate_srt.main on an input and an output directory.           *)

\* The file names of the input directory, in the order Python's sorted()
\* gives paths (by code point: upper case before lower case).
NameOrder == <<"B.SRT", "a.srt", "notes.txt">>
Names == {NameOrder[i] : i \in 1..Len(NameOrder)}
Rank(n) == CHOOSE i \in 1..Len(NameOrder) : NameOrder[i] = n
\* p.suffix.lower() == ".srt"
IsSrt(n) == n \in {"B.SRT", "a.srt"}

InPath(n) == <<"in", n>>
OutPath(n) == <<"out", n>>
MainPaths == {InPath(n) : n \in Names} \cup {OutPath(n) : n \in Names}

\* sorted(S), S a set of names
RECURSIVE SortedNames(_)
SortedNames(S) ==
    IF S = {} THEN <<>>
    ELSE LET n == CHOOSE x \in S : \A y \in S : Rank(x) <= Rank(y)
         IN  <<n>> \o SortedNames(S \ {n})

\* sorted([p for p in in_dir.iterdir() if p.suffix.lower() == ".srt"])
ListSrt(f) == SortedNames({n \in Names : f[InPath(n)] # NoFile /\ IsSrt(n)})

\* the documents the input files hold: one block; a block with a blank text
\* followed by a block at the end of input
MainDocs == {
    <<"1", NL>> \o TS1 \o Arrow \o TS2 \o <<NL, "a", NL, NL>>,
    <<"1", NL>> \o TS1 \o Arrow \o TS2 \o <<NL, " ", NL, NL>>
        \o <<"2", NL>> \o TS2 \o Arrow \o TS3 \o <<NL, "b">> }
\* what an output file left by an earlier run holds
OldOutput == <<"o", "l", "d">>

\* parse_args(): the options main reads.  libre_url and deepl_api_key say
\* whether the option (or, for DeepL, the environment variable) is given.
ArgsSet ==
    { [overwrite |-> o, sleep |-> sl, backend |-> b.backend,
       libre_url |-> b.libre_url, deepl_api_key |-> b.deepl_api_key] :
        o \in BOOLEAN, sl \in SleepValues,
        b \in { [backend |-> "google", libre_url |-> FALSE, deepl_api_key |-> FALSE],
                [backend |-> "libre", libre_url |-> TRUE, deepl_api_key |-> FALSE],
                [backend |-> "libre", libre_url |-> FALSE, deepl_api_key |-> FALSE],
                [backend |-> "deepl", libre_url |-> FALSE, deepl_api_key |-> TRUE],
                [backend |-> "deepl", libre_url |-> FALSE, deepl_api_key |-> FALSE] } }

\* load_translator raises SystemExit when what the backend needs is missing
ConfigOk(a) ==
    /\ a.backend = "libre" => a.libre_url
    /\ a.backend = "deepl" => a.deepl_api_key

\* ShouldSkip with the flag read the wrong way round
ShouldSkipWhenOverwrite(n) == fs[OutPath(n)] # NoFile /\ args.overwrite

\* "if out_path.exists() and not args.overwrite"
ShouldSkip(n) == fs[OutPath(n)] # NoFile /\ ~args.overwrite

\* translate_srt has returned or raised and main goes on
Leave ==
    /\ content' = <<>>
    /\ sleep_duration' = DefaultSleep
    /\ caller' = "nobody"
    /\ tpc' = "idle"
    /\ pos' = 0
    /\ out' = <<>>
    /\ m' = NoMatch
    /\ lines' = <<>>
    /\ li' = 1
    /\ out_lines' = <<>>
    /\ attempt' = 0
    /\ log' = <<>>
    /\ emitted' = <<>>

Msg(what, n) == [msg |-> what, name |-> n]
tcall == <<content, sleep_duration, tpc, pos, out, m, lines, li, out_lines,
           attempt, log, emitted, caller>>

\* main up to the for loop: the translator is loaded, the files are listed
MainStart ==
    /\ mpc = "start"
    /\ IF ~ConfigOk(args)
       THEN /\ exit_status' = 1
            /\ mpc' = "exited"
            /\ UNCHANGED <<backend, srt_files, console>>
       ELSE /\ backend' = args.backend
            /\ srt_files' = ListSrt(fs)
            /\ IF ListSrt(fs) = <<>>
               THEN /\ console' = Append(console, Msg("No .srt files found", "in"))
                    /\ exit_status' = 0
                    /\ mpc' = "exited"
               ELSE /\ mpc' = "loop"
                    /\ UNCHANGED <<console, exit_status>>
    /\ fi' = 1
    /\ done' = 0
    /\ UNCHANGED <<tcall, fvars, args, runs, pvars>>

\* the output exists and --overwrite is not given: the file is skipped
MainSkip ==
    /\ mpc = "loop"
    /\ fi <= Len(srt_files)
    /\ ShouldSkip(srt_files[fi])
    /\ console' = Append(console, Msg("Skipping existing", srt_files[fi]))
    /\ done' = done + 1
    /\ fi' = fi + 1
    /\ UNCHANGED <<tvars, fvars, args, srt_files, exit_status, mpc, runs, pvars>>

\* the file is read and translate_srt(content) is called
MainTranslate ==
    /\ mpc = "loop"
    /\ fi <= Len(srt_files)
    /\ ~ShouldSkip(srt_files[fi])
    /\ Enter(fs[InPath(srt_files[fi])].data, DefaultSleep, "main")
    /\ mpc' = "translating"
    /\ UNCHANGED <<backend, fvars, args, srt_files, fi, done, exit_status,
                   console, runs, pvars>>

\* translate_srt returned: the output file is written
MainWrite ==
    /\ mpc = "translating"
    /\ tpc = "done"
    /\ fs' = [fs EXCEPT ![OutPath(srt_files[fi])] = File(out)]
    /\ console' = Append(console, Msg("Translated", srt_files[fi]))
    /\ done' = done + 1
    /\ fi' = fi + 1
    /\ mpc' = "loop"
    /\ Leave
    /\ UNCHANGED <<backend, ctime, clock, fs0, args, srt_files, exit_status,
                   runs, pvars>>

\* MainCatch that writes what translate_srt had put together so far
MainCatchWritesPartial ==
    /\ mpc = "translating"
    /\ tpc = "raised"
    /\ fs' = [fs EXCEPT ![OutPath(srt_files[fi])] = File(out)]
    /\ console' = Append(console, Msg("Failed", srt_files[fi]))
    /\ fi' = fi + 1
    /\ mpc' = "loop"
    /\ Leave
    /\ UNCHANGED <<backend, ctime, clock, fs0, args, srt_files, done, exit_status,
                   runs, pvars>>

\* MainCatch that lets the exception end the run
MainCatchStops ==
    /\ mpc = "translating"
    /\ tpc = "raised"
    /\ console' = Append(console, Msg("Failed", srt_files[fi]))
    /\ exit_status' = 1
    /\ mpc' = "exited"
    /\ Leave
    /\ UNCHANGED <<backend, fvars, args, srt_files, fi, done, runs, pvars>>

\* translate_srt raised: "except Exception" reports the file
MainCatch ==
    /\ mpc = "translating"
    /\ tpc = "raised"
    /\ console' = Append(console, Msg("Failed", srt_files[fi]))
    /\ fi' = fi + 1
    /\ mpc' = "loop"
    /\ Leave
    /\ UNCHANGED <<backend, fvars, args, srt_files, done, exit_status, runs, pvars>>

\* after the loop: the summary, return 0
MainEnd ==
    /\ mpc = "loop"
    /\ fi > Len(srt_files)
    /\ console' = Append(console, [msg |-> "Done", name |-> "in",
                                   done |-> done, total |-> Len(srt_files)])
    /\ exit_status' = 0
    /\ mpc' = "exited"
    /\ UNCHANGED <<tvars, fvars, args, srt_files, fi, done, runs, pvars>>

\* the same command is run again on the same directories, with or without
\* --overwrite
MainAgain ==
    /\ mpc = "exited"
    /\ runs < MaxRuns
    /\ \E o \in BOOLEAN : args' = [args EXCEPT !.overwrite = o]
    /\ runs' = runs + 1
    /\ fs0' = fs
    /\ mpc' = "start"
    /\ exit_status' = NotExited
    /\ console' = <<>>
    /\ srt_files' = <<>>
    /\ fi' = 1
    /\ done' = 0
    /\ UNCHANGED <<tvars, fs, ctime, clock, pvars>>

InitMain ==
    /\ Idle
    /\ backend = "none"
    /\ fs \in [MainPaths -> {File(d) : d \in MainDocs} \cup {NoFile, File(OldOutput)}]
    /\ \A n \in Names :
           /\ fs[InPath(n)] \in {File(d) : d \in MainDocs} \cup {NoFile}
           /\ fs[OutPath(n)] \in {NoFile, File(OldOutput)}
           /\ ~IsSrt(n) => (fs[InPath(n)] # NoFile /\ fs[OutPath(n)] = NoFile)
    /\ fs0 = fs
    /\ ctime = NoFs
    /\ clock = 0
    /\ args \in ArgsSet
    /\ srt_files = <<>>
    /\ fi = 1
    /\ done = 0
    /\ exit_status = NotExited
    /\ mpc = "start"
    /\ console = <<>>
    /\ runs = 1
    /\ PdIdle

NextMain ==
    \/ MainStart
    \/ MainSkip
    \/ MainTranslate
    \/ TranslateStep
    \/ MainWrite
    \/ MainCatch
    \/ MainEnd
    \/ MainAgain

SpecMain == InitMain /\ [][NextMain]_vars

---------------------------------------------------------------------------
(* process_videos.process_directory on a directory of videos.              *)
(* A path is <<directory, stem, extension>>.                               *)

\* the video stems, in the order sorted() gives a.mp4 and ab.mp4
StemOrder == << <<"a">>, <<"a", "b">> >>
Stems == {StemOrder[i] : i \in 1..Len(StemOrder)}
StemRank(v) == CHOOSE i \in 1..Len(StemOrder) : StemOrder[i] = v

SrtExts == {".srt", ".en.srt", ".xx.srt"}
VideoPath(v) == <<"root", v, ".mp4">>
\* final_es_srt, also expected_srt: video.with_suffix(".srt")
SpanishPath(v) == <<"root", v, ".srt">>
\* temp_en_srt, also expected_srt_lang: video.with_suffix(".en.srt")
TempEnglishPath(v) == <<"root", v, ".en.srt">>
\* final_en_srt_in_subdir: sub_en_dir / f"{video.stem}.en.srt"
SubdirEnglishPath(v) == <<"sub_en", v, ".en.srt">>
\* a subtitle file the transcription tool names in some other way
OtherPath(v) == <<"root", v, ".xx.srt">>

PdPaths ==
    {<<"root", v, e>> : v \in Stems, e \in SrtExts \cup {".mp4"}}
        \cup {SubdirEnglishPath(v) : v \in Stems}

IsPrefix(a, b) == Len(a) <= Len(b) /\ SubSeq(b, 1, Len(a)) = a

\* video_path.parent.glob(f"{video_path.stem}*.srt")
Glob(f, v) ==
    {p \in PdPaths : p[1] = "root" /\ p[3] \in SrtExts /\ IsPrefix(v, p[2]) /\ f[p].exists}

\* sorted(set(glob("*.mp4") + glob("*.MP4")))
RECURSIVE SortedStems(_)
SortedStems(S) ==
    IF S = {} THEN <<>>
    ELSE LET v == CHOOSE x \in S : \A y \in S : StemRank(x) <= StemRank(y)
         IN  <<v>> \o SortedStems(S \ {v})
ListVideos(f) == SortedStems({v \in Stems : f[VideoPath(v)].exists})

\* what the files of the directory hold
VideoData == <<"v">>
SpanishDoc == <<"1", NL>> \o TS1 \o Arrow \o TS2 \o <<NL, "A", NL, NL>>
EnglishDoc ==
    <<"1", NL>> \o TS1 \o Arrow \o TS2 \o <<NL, " ", NL, NL>>
        \o <<"2", NL>> \o TS2 \o Arrow \o TS3 \o <<NL, "a">>
WhisperDoc == <<"1", NL>> \o TS1 \o Arrow \o TS2 \o <<NL, "b", NL, NL>>

\* what a run of the transcription tool may leave: it fails, or it exits
\* with success having written nothing, VideoName.srt, VideoName.en.srt or
\* another VideoName*.srt
WhisperOutcomes == {"fails", "nothing", ".srt", ".en.srt", ".xx.srt"}

\* the file system after subprocess.run(cmd, check=True)
AfterWhisper(f, v, outcome) ==
    IF outcome \in SrtExts
    THEN [f EXCEPT ![<<"root", v, outcome>>] = File(WhisperDoc)]
    ELSE f
TimesAfterWhisper(t, v, outcome) ==
    IF outcome \in SrtExts THEN [t EXCEPT ![<<"root", v, outcome>>] = clock] ELSE t

\* Path.rename, shutil.move
Rename(f, src, dst) == [f EXCEPT ![dst] = f[src], ![src] = NoFile]
\* max(possible_files, key=os.path.getctime): a newest file; which one of
\* several equally new files depends on the order glob lists them in
Latest(t, files) == {p \in files : \A q \in files : t[q] <= t[p]}

\* "if final_es_srt.exists() and final_en_srt_in_subdir.exists() and not force"
AlreadyDone(v) ==
    fs[SpanishPath(v)].exists /\ fs[SubdirEnglishPath(v)].exists /\ ~force

\* "if not final_es_srt.exists() or force"
NeedsSpanish(v) == ~fs[SpanishPath(v)].exists \/ force

Video == videos[vi]

\* "english_source and english_source.exists()"
HaveSource == IF english_source = NoPath THEN FALSE ELSE fs[english_source].exists

\* process_directory up to the for loop
PdStart ==
    /\ ppc = "start"
    /\ videos' = ListVideos(fs)
    /\ ppc' = IF ListVideos(fs) = <<>> THEN "returned" ELSE "loop"
    /\ vi' = 1
    /\ processed_count' = 0
    /\ UNCHANGED <<tvars, fvars, mvars, force, english_source>>

\* both subtitles exist: the video is skipped
PdSkip ==
    /\ ppc = "loop"
    /\ vi <= Len(videos)
    /\ AlreadyDone(Video)
    /\ processed_count' = processed_count + 1
    /\ vi' = vi + 1
    /\ UNCHANGED <<tvars, fvars, mvars, force, videos, english_source, ppc>>

\* an English subtitle is found in sub_en/ or in the root
PdFoundEnglish ==
    /\ ppc = "loop"
    /\ vi <= Len(videos)
    /\ ~AlreadyDone(Video)
    /\ fs[SubdirEnglishPath(Video)].exists \/ fs[TempEnglishPath(Video)].exists
    /\ english_source' = IF fs[SubdirEnglishPath(Video)].exists
                         THEN SubdirEnglishPath(Video)
                         ELSE TempEnglishPath(Video)
    /\ ppc' = "have_source"
    /\ UNCHANGED <<tvars, fvars, mvars, force, videos, vi, processed_count>>

\* generate_english_subtitle: the tool runs, its output is looked for and
\* renamed to VideoName.en.srt
PdWhisper ==
    /\ ppc = "loop"
    /\ vi <= Len(videos)
    /\ ~AlreadyDone(Video)
    /\ ~fs[SubdirEnglishPath(Video)].exists
    /\ ~fs[TempEnglishPath(Video)].exists
    /\ \E outcome \in WhisperOutcomes :
         LET f1 == AfterWhisper(fs, Video, outcome)
             t1 == TimesAfterWhisper(ctime, Video, outcome)
             expected_srt == SpanishPath(Video)
             expected_srt_lang == TempEnglishPath(Video)
             possible_files == Glob(f1, Video)
         IN  IF outcome = "fails"
             THEN /\ english_source' = NoPath
                  /\ UNCHANGED <<fs, ctime, clock>>
             ELSE IF f1[expected_srt_lang].exists
             THEN /\ english_source' = expected_srt_lang
                  /\ fs' = f1
                  /\ ctime' = t1
                  /\ clock' = clock + 1
             ELSE IF f1[expected_srt].exists
             THEN /\ english_source' = expected_srt_lang
                  /\ fs' = Rename(f1, expected_srt, expected_srt_lang)
                  /\ ctime' = [t1 EXCEPT ![expected_srt_lang] = clock + 1]
                  /\ clock' = clock + 2
             ELSE IF possible_files # {}
             THEN \E latest \in Latest(t1, possible_files) :
                  /\ english_source' = expected_srt_lang
                  /\ fs' = Rename(f1, latest, expected_srt_lang)
                  /\ ctime' = [t1 EXCEPT ![expected_srt_lang] = clock + 1]
                  /\ clock' = clock + 2
             ELSE /\ english_source' = NoPath
                  /\ UNCHANGED <<fs, ctime, clock>>
    /\ ppc' = "have_source"
    /\ UNCHANGED <<tvars, fs0, mvars, force, videos, vi, processed_count>>

\* "if not english_source or not english_source.exists()": next video
PdNoSource ==
    /\ ppc = "have_source"
    /\ ~HaveSource
    /\ english_source' = NoPath
    /\ vi' = vi + 1
    /\ ppc' = "loop"
    /\ UNCHANGED <<tvars, fvars, mvars, force, videos, processed_count>>

\* translate_to_spanish: the translator is loaded, the English subtitle is
\* read and translate_srt(content) is called
PdTranslate ==
    /\ ppc = "have_source"
    /\ HaveSource
    /\ NeedsSpanish(Video)
    /\ backend' = "google"
    /\ Enter(fs[english_source].data, DefaultSleep, "pd")
    /\ ppc' = "translating"
    /\ UNCHANGED <<fvars, mvars, force, videos, vi, processed_count, english_source>>

\* translate_srt returned: the Spanish subtitle is written
PdTranslated ==
    /\ ppc = "translating"
    /\ tpc = "done"
    /\ fs' = [fs EXCEPT ![SpanishPath(Video)] = File(out)]
    /\ ctime' = [ctime EXCEPT ![SpanishPath(Video)] = clock]
    /\ clock' = clock + 1
    /\ ppc' = "organize"
    /\ Leave
    /\ UNCHANGED <<backend, fs0, mvars, force, videos, vi, processed_count,
                   english_source>>

\* translate_srt raised: translate_to_spanish reports it and returns False
PdTranslateFailed ==
    /\ ppc = "translating"
    /\ tpc = "raised"
    /\ ppc' = "organize"
    /\ Leave
    /\ UNCHANGED <<backend, fvars, mvars, force, videos, vi, processed_count,
                   english_source>>

\* the Spanish subtitle exists and force is not set
PdKeepSpanish ==
    /\ ppc = "have_source"
    /\ HaveSource
    /\ ~NeedsSpanish(Video)
    /\ ppc' = "organize"
    /\ UNCHANGED <<tvars, fvars, mvars, force, videos, vi, processed_count,
                   english_source>>

\* the English subtitle is moved to sub_en/ unless it is there already
PdOrganize ==
    /\ ppc = "organize"
    /\ IF english_source # SubdirEnglishPath(Video)
       THEN /\ fs' = Rename(fs, english_source, SubdirEnglishPath(Video))
            /\ ctime' = [ctime EXCEPT ![SubdirEnglishPath(Video)] = clock]
            /\ clock' = clock + 1
       ELSE UNCHANGED <<fs, ctime, clock>>
    /\ processed_count' = processed_count + 1
    /\ english_source' = NoPath
    /\ vi' = vi + 1
    /\ ppc' = "loop"
    /\ UNCHANGED <<tvars, fs0, mvars, force, videos>>

\* the for loop is over
PdEnd ==
    /\ ppc = "loop"
    /\ vi > Len(videos)
    /\ ppc' = "returned"
    /\ UNCHANGED <<tvars, fvars, mvars, force, videos, vi, processed_count,
                   english_source>>

InitPd ==
    /\ Idle
    /\ backend = "none"
    /\ fs \in [PdPaths -> {NoFile, File(VideoData), File(SpanishDoc), File(EnglishDoc)}]
    /\ \A v \in Stems :
           /\ fs[VideoPath(v)] \in {NoFile, File(VideoData)}
           /\ fs[SpanishPath(v)] \in {NoFile, File(SpanishDoc)}
           /\ fs[TempEnglishPath(v)] \in {NoFile, File(EnglishDoc)}
           /\ fs[SubdirEnglishPath(v)] \in {NoFile, File(EnglishDoc)}
           /\ fs[OtherPath(v)] = NoFile
    /\ fs0 = fs
    /\ ctime = [p \in PdPaths |-> 0]
    /\ clock = 1
    /\ MainIdle
    /\ force \in BOOLEAN
    /\ videos = <<>>
    /\ vi = 1
    /\ processed_count = 0
    /\ english_source = NoPath
    /\ ppc = "start"

NextPd ==
    \/ PdStart
    \/ PdSkip
    \/ PdFoundEnglish
    \/ PdWhisper
    \/ PdNoSource
    \/ PdTranslate
    \/ TranslateStep
    \/ PdTranslated
    \/ PdTranslateFailed
    \/ PdKeepSpanish
    \/ PdOrganize
    \/ PdEnd

SpecPd == InitPd /\ [][NextPd]_vars

---------------------------------------------------------------------------
(* What the claims are stated with. *)

IsCall(e) == e.ev = "call"
IsOkCall(e) == e.ev = "call" /\ e.ok
IsDelay(e) == e.ev = "sleep" /\ e.why = "request"

\* the backend calls of a log, in order
Calls(l) == SelectSeq(l, IsCall)
\* the lines of the calls that succeeded
OkLines(l) == LET oks == SelectSeq(l, IsOkCall) IN [i \in 1..Len(oks) |-> oks[i].line]
\* how many calls in a row, ending with call i, failed
FailRun(calls, i) ==
    LET oks == {j \in 1..i : calls[j].ok}
    IN  IF oks = {} THEN i ELSE i - (CHOOSE j \in oks : \A k \in oks : k <= j)

NonBlank(ls) == SelectSeq(ls, LAMBDA ln : ~IsBlank(ln))
\* the non-blank text lines of a list of matches, block after block
RECURSIVE TextLines(_)
TextLines(ms) ==
    IF ms = <<>> THEN <<>> ELSE NonBlank(Split(Head(ms).txt)) \o TextLines(Tail(ms))

Stamp(mm) == [idx |-> mm.idx, t1 |-> mm.t1, t2 |-> mm.t2]
Stamps(ms) == [i \in 1..Len(ms) |-> Stamp(ms[i])]

EndsWith(s, t) == Len(s) >= Len(t) /\ SubSeq(s, Len(s) - Len(t) + 1, Len(s)) = t

\* C1: with the identity backend translate_srt returns its input unchanged.
C1_RoundTripIdentity ==
    (caller = "direct" /\ tpc = "done" /\ backend = "identity") => out = content

\* C2: the output holds one block per block recognized in the input, in the
\* same order and with the same index and timestamps (as appended by
\* translate_srt and as read back from the output); the backend is called
\* with the non-blank text lines of the blocks and with nothing else.
C2_BlocksAndTimingKept ==
    (caller = "direct" /\ tpc = "done") =>
        LET blocks == FindAll(content, 0)
            texts == TextLines(blocks)
        IN  /\ emitted = Stamps(blocks)
            /\ Stamps(FindAll(out, 0)) = Stamps(blocks)
            /\ OkLines(log) = texts
            /\ \A i \in 1..Len(log) :
                   IsCall(log[i]) => \E k \in 1..Len(texts) : log[i].line = texts[k]

C2_Witness ==
    /\ caller = "direct" /\ tpc = "done" /\ backend = "google"
    /\ Len(emitted) = 2
    /\ emitted[1].idx # emitted[2].idx
    /\ Len(OkLines(log)) = 2

\* the canonical two-line caption: index, time range, two text lines, blank line
TwoLineCaption ==
    <<"1", NL>> \o TS1 \o Arrow \o TS2 \o <<NL, "a", NL, "b", NL, NL>>

\* C3: a block whose caption has two text lines is recognized, each line is
\* submitted to the backend on its own, and the translated lines come out
\* in the same order, two of them.
C3_TwoLineCaptionTranslated ==
    (caller = "direct" /\ tpc = "done" /\ backend = "google"
        /\ EndsWith(content, TwoLineCaption)) =>
        /\ emitted # <<>>
        /\ EndsWith(OkLines(log), << <<"a">>, <<"b">> >>)
        /\ \E i \in 0..Len(out) : Slice(out, i, i + 3) = <<"A", NL, "B">>

\* C4: a line is submitted at most 5 times in a row; a success after 4
\* failures is a translation, with no error; 5 failures end the call with
\* the error and are followed by no further call.
C4_RetryBound ==
    LET calls == Calls(log)
    IN  /\ \A i \in 1..Len(calls) :
               /\ FailRun(calls, i) <= 5
               /\ FailRun(calls, i) = 5 => (i = Len(calls) /\ tpc = "raised")
        /\ tpc = "raised" => (calls # <<>> /\ FailRun(calls, Len(calls)) = 5)
        /\ (tpc = "line" /\ li > 1 /\ ~IsBlank(lines[li - 1])) =>
               /\ calls # <<>>
               /\ calls[Len(calls)] = CallEvent(lines[li - 1], TRUE)
               /\ Len(out_lines) = li - 1
               /\ out_lines[li - 1] = Translate(backend, lines[li - 1])
        /\ tpc = "line" =>
               \/ (calls = <<>> /\ attempt = 0)
               \/ (calls # <<>> /\ attempt = FailRun(calls, Len(calls)))

C4_Witness ==
    LET calls == Calls(log)
    IN  /\ Len(calls) = 5
        /\ FailRun(calls, 4) = 4
        /\ calls[5].ok
        /\ tpc = "done"
        /\ Len(emitted) = 1

\* C8 as claimed: every non-blank line, translated or given up after 5
\* attempts, is followed at once by one wait of the inter-request delay.
C8_DelayAfterEveryLine ==
    LET calls == Calls(log)
    IN  \A i \in 1..Len(log) :
            (IsCall(log[i]) /\ (log[i].ok \/ (tpc = "raised" /\ i = Len(log)))) =>
                (i < Len(log) /\ log[i + 1] = DelayEvent(sleep_duration))

\* C8 amended: every translated non-blank line is followed at once by one
\* wait of the inter-request delay; the delay is waited at no other time:
\* not for a blank line, and not after a line whose 5 attempts failed, where
\* the error leaves the function at once.
C8_DelayAfterTranslatedLine ==
    /\ \A i \in 1..Len(log) :
           /\ IsOkCall(log[i]) => (i < Len(log) /\ log[i + 1] = DelayEvent(sleep_duration))
           /\ IsDelay(log[i]) => (i > 1 /\ IsOkCall(log[i - 1]))
    /\ tpc = "raised" => (log # <<>> /\ IsCall(log[Len(log)]) /\ ~log[Len(log)].ok)
    /\ Len(SelectSeq(log, IsDelay)) = Len(OkLines(log))

C8_Witness ==
    /\ tpc = "raised"
    /\ Len(OkLines(log)) = 1
    /\ Len(emitted) = 1

---------------------------------------------------------------------------
(* Claims about main. *)

\* the files main reported on, in the order of the reports
IsVisit(e) == e.msg \in {"Skipping existing", "Translated", "Failed"}
Visited == LET v == SelectSeq(console, IsVisit) IN [i \in 1..Len(v) |-> v[i].name]
Count(what) == Len(SelectSeq(console, LAMBDA e : e.msg = what))
\* the file the for loop of main is at
Current == srt_files[fi]
\* some line of the document was given up after 5 failed calls in a row
Exhausted(l) == \E i \in 1..Len(Calls(l)) : FailRun(Calls(l), i) >= 5

\* C5: once the retries of a line are exhausted the file system is left as
\* it is and the backend is not called again for the document; the output
\* of a file reported as failed is what it was when the run started
\* (absent, or the old content under --overwrite).
C5_NoPartialOutput ==
    /\ [][(caller = "main" /\ Exhausted(log)) =>
              (fs' = fs /\ (log' = log \/ log' = <<>>) /\ tpc' \in {"raised", "idle"})]_vars
    /\ [](\A i \in 1..Len(console) :
              console[i].msg = "Failed" =>
                  fs[OutPath(console[i].name)] = fs0[OutPath(console[i].name)])

C5_Witness ==
    /\ mpc = "loop"
    /\ args.overwrite
    /\ console # <<>>
    /\ console[Len(console)].msg = "Failed"
    /\ fs[OutPath(console[Len(console)].name)] = File(OldOutput)
    /\ Len(fs[InPath(console[Len(console)].name)].data) > 40

\* C6: every .srt file of the input directory is reported exactly once, in
\* sorted order, whatever happened to the files before it; the run exits
\* with status 0; done counts the skipped and the written files only.
C6_BatchGoesOn ==
    (mpc # "start" /\ ConfigOk(args)) =>
        /\ \A n \in Names :
               (IsSrt(n) /\ fs[InPath(n)].exists) <=>
                   (\E i \in 1..Len(srt_files) : srt_files[i] = n)
        /\ \A i, j \in 1..Len(srt_files) :
               i < j => Rank(srt_files[i]) < Rank(srt_files[j])
        /\ mpc \in {"loop", "translating"} =>
               /\ Visited = SubSeq(srt_files, 1, fi - 1)
               /\ exit_status = NotExited
        /\ done = Count("Skipping existing") + Count("Translated")
        /\ mpc = "exited" =>
               /\ Visited = srt_files
               /\ exit_status = 0
               /\ srt_files # <<>> =>
                      /\ console[Len(console)].msg = "Done"
                      /\ console[Len(console)].done = Len(srt_files) - Count("Failed")
                      /\ console[Len(console)].total = Len(srt_files)

C6_Witness ==
    /\ mpc = "exited"
    /\ exit_status = 0
    /\ Len(console) = 3
    /\ console[1].msg = "Failed"
    /\ console[2].msg = "Translated"
    /\ console[3].done = 1

\* C7: without --overwrite an output file that exists is never written and
\* the backend is never called for its input file; so what the output
\* directory held when a run started is still there, unchanged, throughout
\* the run (a second run leaves the first run's outputs alone).
C7_SkipExisting ==
    /\ [][~args.overwrite =>
              /\ \A n \in Names :
                     fs[OutPath(n)].exists => fs'[OutPath(n)] = fs[OutPath(n)]
              /\ Len(Calls(log')) > Len(Calls(log)) => ~fs[OutPath(Current)].exists
              /\ tpc' = "find" /\ tpc = "idle" => ~fs[OutPath(Current)].exists]_vars
    /\ [](~args.overwrite =>
              \A n \in Names :
                  fs0[OutPath(n)].exists => fs[OutPath(n)] = fs0[OutPath(n)])

C7_Witness ==
    /\ runs = 2
    /\ mpc = "exited"
    /\ ~args.overwrite
    /\ Len(console) = 3
    /\ console[1].msg = "Skipping existing"
    /\ console[2].msg = "Skipping existing"
    /\ fs[OutPath(console[1].name)] # File(OldOutput)
    /\ fs[OutPath(console[2].name)] = File(OldOutput)

\* C9: in a run of main the delay waited after a translated line is the
\* value of --sleep.
C9_DelayIsSleepOption ==
    caller = "main" =>
        \A i \in 1..Len(log) : IsDelay(log[i]) => log[i].ms = args.sleep

---------------------------------------------------------------------------
(* Claims about process_directory. *)

\* C10: without force a Spanish subtitle VideoName.srt that was there when
\* the run started is still there, with the same content, whatever English
\* subtitles exist and whatever the transcription tool leaves.
C10_SpanishSubtitleKept ==
    ~force => \A v \in Stems :
                  fs0[SpanishPath(v)].exists => fs[SpanishPath(v)] = fs0[SpanishPath(v)]
====
